---- MODULE Spec2Model ----
(***************************************************************************)
(* Job orchestration engine of Wget-manager.                               *)
(*                                                                         *)
(* Two server revisions are modelled:                                      *)
(*   - the queue-based engine  (src/unnamed/part_001): Spec                *)
(*   - the admission-by-rejection engine (src/server.js): SpecLegacy       *)
(*                                                                         *)
(* JavaScript runs the handlers on one thread, so every action below is    *)
(* one synchronous run of a handler (up to its next await).  Objects are   *)
(* shared by reference: a closure keeps mutating the job object after the  *)
(* job left the Map, so the job objects live in a heap (download) and the  *)
(* Map is the set of its keys (activeDownloads).                           *)
(***************************************************************************)
EXTENDS Integers, Sequences, FiniteSets, TLC

\* ---------------------------------------------------------------- bounds
\* Two shapes of run are explored: few jobs with several environment events
\* (Spec) and more jobs with fewer environment events and one download slot
\* (SpecWide).
MaxJobs == 2
MaxFaults == 2
MaxJobsWide == 3
MaxFaultsWide == 1
\* the run with subscribers: jobs, environment events, connections, clock
MaxJobsEvents == 1
MaxFaultsEvents == 1
MaxConns == 2
MaxClock == 1
\* the run over every combination of url features: jobs, environment events
MaxJobsBackend == 1
MaxFaultsBackend == 1
\* the run with two download slots: jobs, environment events, slots
MaxJobsPair == 4
MaxFaultsPair == 1
MaxConcurrentPair == 2
\* the run with failing completions: jobs, environment events
MaxJobsFiler == 2
MaxFaultsFiler == 1
\* the run with overlapping submissions: requests
MaxSubmissions == 2
MaxFaultsOverlap == 1
\* the retrieval run: artifacts on disk and retrieval requests
MaxArtifacts == 2
MaxRetrievals == 3
\* the submission run: jobs, and pieces a submitted url is made of
MaxJobsIntake == 1
MaxUrlLen == 2

\* ------------------------------------------- configuration (process.env)
MAX_CONCURRENT_DOWNLOADS == 1

RETRY_ATTEMPTS == 1

MaxOf(S) == CHOOSE x \in S : \A y \in S : y <= x

Ids == 1..MaxOf({MaxJobs, MaxJobsWide, MaxJobsPair, MaxJobsFiler})

\* Representative submissions: the URL features the code inspects
\* (url.startsWith("magnet:"), isVideoPlatform(url), /\.(m3u8|mpd)/i) and
\* the forceVideo hint of the HEAD probe.
DirectReq  == [magnet |-> FALSE, platform |-> FALSE, manifest |-> FALSE, forceVideo |-> FALSE]
VideoReq   == [magnet |-> FALSE, platform |-> TRUE,  manifest |-> FALSE, forceVideo |-> FALSE]
StreamReq  == [magnet |-> FALSE, platform |-> FALSE, manifest |-> TRUE,  forceVideo |-> FALSE]
TorrentReq == [magnet |-> TRUE,  platform |-> FALSE, manifest |-> FALSE, forceVideo |-> FALSE]
Requests == {DirectReq, VideoReq}

\* every combination of the features startDownload looks at
AllRequests ==
  [magnet : BOOLEAN, platform : BOOLEAN, manifest : BOOLEAN, forceVideo : BOOLEAN]

\* Entry loaded by loadState has no config field
NoConfig == [magnet |-> FALSE, platform |-> FALSE, manifest |-> FALSE, forceVideo |-> FALSE, absent |-> TRUE]

\* Exit codes of a worker: 0, generic failure 1, the network codes 3 and 7,
\* -1 for "killed by signal" (code === null), -2 for a failed spawn.
ExitCodes == {0, 1, 3, 7}
KilledCode == -1
SpawnFailCode == -2

\* A progress percentage parsed from a worker output chunk
ProgressSamples == {50}

\* connections to GET /events, artifacts in the downloads directory and
\* requests to GET /transfer
Conns == 1..MaxConns
Artifacts == 1..MaxArtifacts
Retrievals == 1..MaxRetrievals

\* submission requests whose handlers may overlap
Submissions == 1..MaxSubmissions

VARIABLES
  activeDownloads,  \* keys of the Map activeDownloads
  download,         \* heap of the Map's entry objects  { info, config, process, retryCount }
  downloadQueue,    \* Array of ids waiting to start
  procs,            \* per job, the worker processes spawned for it, in spawn order
  retryTimers,      \* ids with a pending setTimeout(() => startDownload(id), RETRY_DELAY)
  stateFile,        \* contents of STATE_FILE (active_downloads.json)
  historyList,      \* history records
  published,        \* per job, the statuses carried by the events broadcast for it
  nextId,           \* next fresh id (uuidv4)
  startOrder,       \* ids in the order processQueue handed them to startDownload
  cancelRequested,  \* ids for which a cancel / cancel-all was accepted
  faults,           \* number of environment events so far: output chunks, failed
                    \* worker runs, timeouts, cancel requests, restarts
  run,              \* this run's bounds and configuration: [jobs, faults,
                    \* maxConcurrent, requests, outcomes]
  clients,          \* Array clients: the connections registered for the events
  conns,            \* per connection to GET /events: [id, state, throws, received]
  clock,            \* Date.now()
  files,            \* artifacts present in the downloads directory
  transfers,        \* per request to GET /transfer: [state, file]
  intake,           \* the POST /download being handled: [phase, raw, url], raw the
                    \* url of the request body and url the handler's variable
  storedUrl,        \* per job, the url stored in its info and config
  parsed,           \* the progress fields of a job's info under a worker's output,
                    \* and whether the last chunk was published
  artifact,         \* per job, what the completion recorded about its file:
                    \* [fullSize, filename]
  probing           \* per submission request: [state, arrival, id, req], the handler's
                    \* position around its awaited probes

\* what the engine's handlers never touch
envvars == <<clients, clock, files, transfers, intake, storedUrl, parsed, probing>>

qvars == <<activeDownloads, download, downloadQueue, procs, retryTimers, stateFile,
           historyList, published, nextId, startOrder, cancelRequested, faults, run,
           clients, conns, clock, files, transfers, intake, storedUrl, parsed,
           artifact, probing>>

NoConn == [id |-> 0, state |-> "none", throws |-> FALSE, received |-> <<>>]

\* no chunk written yet
NoChunk == [backend |-> "none"]

\* no job submitted yet
NoParsed == [backend |-> "none"]

\* the progress fields of a new job's info (downloadInfo of POST /download)
\* backend: the worker that writes the output; last: its last chunk
FreshInfo(b) ==
  [progress |-> 0, speed |-> "0 KB/s", eta |-> "--", currentSize |-> "0 B",
   fullSize |-> "???", event |-> FALSE, backend |-> b, last |-> NoChunk]

NoArtifact == [fullSize |-> "???", filename |-> "none",
               tried |-> [stat |-> FALSE, move |-> "untried"]]

NoSubmission == [state |-> "none", arrival |-> 0, id |-> 0, req |-> DirectReq]

NoEntry == [info |-> [status |-> "none", progress |-> 0],
            config |-> NoConfig, process |-> 0, retryCount |-> 0]

\* ------------------------------------------------------------- helpers
RECURSIVE SeqToSet(_)
SeqToSet(s) == IF s = <<>> THEN {} ELSE {Head(s)} \cup SeqToSet(Tail(s))

\* The engine's mutable state as one value, threaded through the calls a
\* handler makes.
EngineState ==
  [active |-> activeDownloads, dl |-> download, queue |-> downloadQueue,
   procs |-> procs, timers |-> retryTimers, file |-> stateFile,
   pub |-> published, order |-> startOrder, threw |-> FALSE,
   clients |-> clients, conns |-> conns]

\* saveState(): the array of the info objects of the tracked jobs, written
\* over STATE_FILE.
SaveState(s) ==
  [s EXCEPT !.file = [j \in s.active |-> s.dl[j].info]]

\* the event of a broadcast about job id: a copy of the job's info
EventOf(s, id) ==
  [id |-> id, status |-> s.dl[id].info.status, progress |-> s.dl[id].info.progress]

\* clients.forEach without the try/catch: the first write that throws ends
\* the loop
RECURSIVE WriteAllUncaught(_, _, _)
WriteAllUncaught(cs, cl, e) ==
  IF cl = <<>> THEN cs
  ELSE IF cs[Head(cl)].throws THEN cs
  ELSE WriteAllUncaught([cs EXCEPT ![Head(cl)].received = Append(@, e)], Tail(cl), e)

\* clients.forEach(c => { try { c.res.write(message) } catch { } }): cs is
\* the connections, cl the rest of the Array clients, e the event
RECURSIVE WriteAll(_, _, _)
WriteAll(cs, cl, e) ==
  IF cl = <<>> THEN cs
  ELSE IF cs[Head(cl)].throws THEN WriteAll(cs, Tail(cl), e)
  ELSE WriteAll([cs EXCEPT ![Head(cl)].received = Append(@, e)], Tail(cl), e)

\* broadcast saving the state on everything but a status-change event
BroadcastUpdatesOnly(s, type, id) ==
  LET st == s.dl[id].info.status
      s1 == [s EXCEPT !.pub[id] = Append(@, st),
                      !.conns = WriteAll(@, s.clients, EventOf(s, id))]
  IN  IF type # "status-change" /\ st # "downloading" THEN SaveState(s1) ELSE s1

\* broadcast(data) for an event about job id: the event carries the job's
\* current info; the state is saved unless it is an "update" of a job in
\* status downloading.
Broadcast(s, type, id) ==
  LET st == s.dl[id].info.status
      s1 == [s EXCEPT !.pub[id] = Append(@, st),
                      !.conns = WriteAll(@, s.clients, EventOf(s, id))]
  IN  IF type = "status-change" \/ st # "downloading" THEN SaveState(s1) ELSE s1

\* a selection that looks at the manifest extension before the video test
BackendManifestFirst(config) ==
  LET isVideo   == config.forceVideo \/ config.platform
      isTorrent == config.magnet
  IN  IF config.manifest /\ ~isTorrent THEN "ffmpeg"
      ELSE IF isVideo /\ ~isTorrent THEN "yt-dlp"
      ELSE "aria2c"

\* Backend selection of startDownload
Backend(config) ==
  LET isVideo   == config.forceVideo \/ config.platform
      isTorrent == config.magnet
  IN  IF isVideo /\ ~isTorrent THEN "yt-dlp"
      ELSE IF config.manifest /\ ~isTorrent THEN "ffmpeg"
      ELSE "aria2c"

\* the names startDownload has in scope where it computes the aria2c
\* connection count: those it destructures from download.config and its
\* own locals
StartDownloadScope ==
  {"id", "download", "url", "filename", "ua", "referer", "cookies", "noCheckCert",
   "singleSegment", "forceVideo", "formatCode", "retryCount", "isVideo", "isTorrent",
   "proc", "lastError", "isRetry"}

\* Math.max(1, Math.min(parseInt(connections) || (isTorrent ? 4 : 16), 16)),
\* the value of --max-connection-per-server and --split.  requested is the
\* number the request asked for, 0 when it asked for none.  Reading a name
\* that is not in scope throws.
AriaConns(isTorrent, requested) ==
  IF "connections" \notin StartDownloadScope THEN [threw |-> TRUE, conns |-> 0]
  ELSE LET want    == IF requested # 0 THEN requested ELSE IF isTorrent THEN 4 ELSE 16
           atMost  == IF want < 16 THEN want ELSE 16
       IN  [threw |-> FALSE, conns |-> IF atMost > 1 THEN atMost ELSE 1]

\* startDownload(id)
StartDownload(s, id) ==
  IF id \notin s.active THEN s
  ELSE
    LET s1 == [s EXCEPT !.dl[id].info.status = "downloading"]
        s2 == Broadcast(s1, "status-change", id)
    IN  IF Backend(s.dl[id].config) = "aria2c" /\ AriaConns(s.dl[id].config.magnet, 0).threw
        THEN \* parseInt(connections): connections is not defined in this
             \* scope, a ReferenceError is thrown before spawn()
             [s2 EXCEPT !.threw = TRUE]
        ELSE [s2 EXCEPT !.procs[id] = Append(@, "running"),
                        !.dl[id].process = Len(s.procs[id]) + 1]

\* processQueue counting only the jobs in status downloading
RunningCountDownloadingOnly(s) ==
  Cardinality({j \in s.active : s.dl[j].info.status = "downloading"})

RunningCount(s) ==
  Cardinality({j \in s.active : s.dl[j].info.status \in {"downloading", "retrying"}})

\* processQueue taking the newest id (pop) instead of the oldest (shift)
RECURSIVE ProcessQueueLifo(_)
ProcessQueueLifo(s) ==
  IF RunningCount(s) < run.maxConcurrent /\ Len(s.queue) > 0
  THEN LET nextIdQ == s.queue[Len(s.queue)]
           s1 == [s EXCEPT !.queue = SubSeq(@, 1, Len(@) - 1),
                           !.order = IF nextIdQ \in s.active THEN Append(@, nextIdQ) ELSE @]
           s2 == StartDownload(s1, nextIdQ)
       IN  IF s2.threw THEN s2 ELSE ProcessQueueLifo(s2)
  ELSE s

\* processQueue()
RECURSIVE ProcessQueue(_)
ProcessQueue(s) ==
  IF RunningCount(s) < run.maxConcurrent /\ Len(s.queue) > 0
  THEN LET nextIdQ == Head(s.queue)
           s1 == [s EXCEPT !.queue = Tail(@),
                           !.order = IF nextIdQ \in s.active THEN Append(@, nextIdQ) ELSE @]
           s2 == StartDownload(s1, nextIdQ)
       IN  IF s2.threw THEN s2 ELSE ProcessQueue(s2)
  ELSE s

\* Write an engine state back to the variables
Commit(s) ==
  /\ activeDownloads' = s.active
  /\ download' = s.dl
  /\ downloadQueue' = s.queue
  /\ procs' = s.procs
  /\ retryTimers' = s.timers
  /\ stateFile' = s.file
  /\ published' = s.pub
  /\ startOrder' = s.order
  /\ conns' = s.conns

\* ------------------------------------------------------------- actions
InitEngine ==
  /\ activeDownloads = {}
  /\ download = [j \in Ids |-> NoEntry]
  /\ downloadQueue = <<>>
  /\ procs = [j \in Ids |-> <<>>]
  /\ retryTimers = {}
  /\ stateFile = [j \in {} |-> NoEntry.info]
  /\ historyList = <<>>
  /\ published = [j \in Ids |-> <<>>]
  /\ nextId = 1
  /\ startOrder = <<>>
  /\ cancelRequested = {}
  /\ faults = 0
  /\ clients = <<>>
  /\ conns = [c \in Conns |-> NoConn]
  /\ clock = 0
  /\ transfers = [r \in Retrievals |-> [state |-> "idle", file |-> 0]]
  /\ intake = [phase |-> "none", raw |-> <<>>, url |-> <<>>]
  /\ storedUrl = [j \in Ids |-> <<>>]
  /\ parsed = NoParsed
  /\ artifact = [j \in {} |-> NoArtifact]
  /\ probing = [r \in {} |-> NoSubmission]

\* POST /download from "const id = uuidv4()" on: the job is created in
\* status queued, appended to the queue, announced, and a promotion pass runs
CreateJob(req) ==
  /\ nextId <= run.jobs
  /\ LET id == nextId
         s0 == EngineState
         s1 == [s0 EXCEPT !.active = @ \cup {id},
                          !.dl[id] = [info |-> [status |-> "queued", progress |-> 0],
                                      config |-> req @@ [absent |-> FALSE],
                                      process |-> 0, retryCount |-> 0],
                          !.queue = Append(@, id)]
         s2 == Broadcast(s1, "update", id)
     IN  Commit(ProcessQueue(s2))
  /\ nextId' = nextId + 1
  /\ UNCHANGED <<historyList, cancelRequested, faults, run, clients, clock, files,
                 transfers, parsed, artifact>>

\* POST /download, for a request that passed the validation and the probes
Submit(req) ==
  /\ CreateJob(req)
  /\ UNCHANGED <<intake, storedUrl, probing>>

\* A worker process is live from spawn() until its 'close' event
LiveStates == {"running", "killed"}

\* proc.kill("SIGTERM") on the i-th worker of job j: no effect on a worker
\* that has exited or was never spawned
Kill(s, j, i) ==
  IF i > 0 /\ s.procs[j][i] = "running" THEN [s EXCEPT !.procs[j][i] = "killed"] ELSE s

\* stdout/stderr 'data' handler of the yt-dlp and ffmpeg branches: a chunk
\* carrying a progress figure p
Data(j, i, p) ==
  /\ i \in 1..Len(procs[j])
  /\ procs[j][i] \in LiveStates
  /\ faults < run.faults
  /\ LET s0 == EngineState
         cap == IF Backend(download[j].config) = "yt-dlp" THEN 100 ELSE 99
         s1 == [s0 EXCEPT !.dl[j].info.progress = IF p < cap THEN p ELSE cap]
     IN  Commit(Broadcast(s1, "update", j))
  /\ faults' = faults + 1
  /\ UNCHANGED <<historyList, nextId, cancelRequested, run, artifact, envvars>>

\* a timeout that is not cleared at the exit of its worker and kills
\* whatever worker the job has by then
TimeoutKillsCurrent(j, i) ==
  /\ i \in 1..Len(procs[j])
  /\ faults < run.faults
  /\ faults' = faults + 1
  /\ download[j].process > 0
  /\ procs[j][download[j].process] = "running"
  /\ Commit(Kill(EngineState, j, download[j].process))
  /\ UNCHANGED <<historyList, nextId, cancelRequested, run, artifact, envvars>>

\* the timeout armed by startDownload for the i-th worker of job j
Timeout(j, i) ==
  /\ i \in 1..Len(procs[j])
  /\ faults < run.faults
  /\ faults' = faults + 1
  /\ procs[j][i] = "running"
  /\ Commit(Kill(EngineState, j, i))
  /\ UNCHANGED <<historyList, nextId, cancelRequested, run, artifact, envvars>>

\* a retry decision that looks at the error text only
ShouldRetryTextOnly(retryCount, code, transientText) ==
  retryCount < RETRY_ATTEMPTS /\ transientText

\* a retry decision that allows one attempt too many
ShouldRetryInclusive(retryCount, code, transientText) ==
  retryCount <= RETRY_ATTEMPTS /\ (transientText \/ code = 3 \/ code = 7)

\* the retry decision of the close handler
ShouldRetry(retryCount, code, transientText) ==
  retryCount < RETRY_ATTEMPTS /\ (transientText \/ code = 3 \/ code = 7)

\* the exit codes a worker in a given state can report
CodesOf(pstate) ==
  IF pstate = "running" THEN ExitCodes
  ELSE IF pstate = "killed" THEN ExitCodes \cup {KilledCode}
  ELSE IF pstate = "errored" THEN {SpawnFailCode}
  ELSE {}

\* proc.on("close"), up to its first await.  transientText: lastError
\* contains "503", "Connection", "timeout" or "SSL".
Close(j, i, code, transientText) ==
  /\ i \in 1..Len(procs[j])
  /\ code # 0 => faults < run.faults
  /\ faults' = IF code # 0 THEN faults + 1 ELSE faults
  /\ code \in CodesOf(procs[j][i])
  /\ (code = 0 \/ procs[j][i] = "errored") => ~transientText
  /\ LET s0 == EngineState
     IN  IF code = 0
         THEN Commit([s0 EXCEPT !.dl[j].info.status = "completed",
                                !.dl[j].info.progress = 100,
                                !.procs[j][i] = "fin1"])
         ELSE IF ShouldRetry(download[j].retryCount, code, transientText)
         THEN LET s1 == [s0 EXCEPT !.dl[j].retryCount = @ + 1,
                                   !.dl[j].info.status = "retrying",
                                   !.procs[j][i] = "doneT"]
                  s2 == Broadcast(s1, "update", j)
              IN  Commit([s2 EXCEPT !.timers = @ \cup {j}])
         ELSE LET s1 == [s0 EXCEPT !.dl[j].info.status = "error",
                                   !.procs[j][i] =
                                      IF transientText \/ code = 3 \/ code = 7
                                      THEN "doneT" ELSE "doneF"]
                  s2 == Broadcast(s1, "status-change", j)
              IN  Commit([s2 EXCEPT !.active = @ \ {j}])
  /\ UNCHANGED <<historyList, nextId, cancelRequested, run, artifact, envvars>>

\* what the size measurement and the file move of a completion can do:
\* fs.stat succeeds or throws; no routing rule matches the extension
\* ("none"), or one does and mkdir / rename succeed ("moved") or throw
\* ("failed")
Outcomes == [stat : BOOLEAN, move : {"none", "moved", "failed"}]

PlainOutcome == [stat |-> TRUE, move |-> "none"]

\* info.fullSize and info.filename after the try/catch blocks of the
\* success branch: "final" is finalFilename in the downloads directory,
\* "routed" the path under the rule's folder; tried: the outcome met
FileResult(a, o) ==
  [fullSize |-> IF o.stat THEN "measured" ELSE a.fullSize,
   filename |-> IF o.move = "moved" THEN "routed" ELSE "final",
   tried |-> o]

\* the file fields of job j: those of a fresh job until its completion has
\* been through the measurement and the move
ArtifactOf(j) == IF j \in DOMAIN artifact THEN artifact[j] ELSE NoArtifact

\* close handler, success branch, after the awaited size measurement and
\* file move (outcome o): the history record is a copy of the job's info
\* at that time
FinalizeHistory(j, i, o) ==
  /\ i \in 1..Len(procs[j])
  /\ procs[j][i] = "fin1"
  /\ artifact' = [k \in DOMAIN artifact \cup {j} |->
                    IF k = j THEN FileResult(ArtifactOf(j), o) ELSE artifact[k]]
  /\ historyList' = Append(historyList, [id |-> j, status |-> download[j].info.status,
                                          progress |-> download[j].info.progress,
                                          filename |-> FileResult(ArtifactOf(j), o).filename])
  /\ procs' = [procs EXCEPT ![j][i] = "fin2"]
  /\ UNCHANGED <<activeDownloads, download, downloadQueue, retryTimers, stateFile,
                 published, nextId, startOrder, cancelRequested, faults, run, conns,
                 envvars>>

\* close handler, success branch, after the awaited saveHistory()
FinalizeDone(j, i) ==
  /\ i \in 1..Len(procs[j])
  /\ procs[j][i] = "fin2"
  /\ LET s0 == EngineState
         s1 == [s0 EXCEPT !.active = @ \ {j}, !.procs[j][i] = "done0"]
         s2 == Broadcast(s1, "status-change", j)
     IN  Commit(ProcessQueue(s2))
  /\ UNCHANGED <<historyList, nextId, cancelRequested, faults, run, artifact, envvars>>

\* an 'error' handler that ends the job without a promotion pass
LaunchErrorNoPromotion(j, i) ==
  /\ i \in 1..Len(procs[j])
  /\ faults < run.faults
  /\ faults' = faults + 1
  /\ procs[j][i] = "running"
  /\ LET s0 == EngineState
         s1 == [s0 EXCEPT !.dl[j].info.status = "error", !.procs[j][i] = "errored"]
         s2 == Broadcast(s1, "status-change", j)
     IN  Commit([s2 EXCEPT !.active = @ \ {j}])
  /\ UNCHANGED <<historyList, nextId, cancelRequested, run, artifact, envvars>>

\* proc.on("error"): the worker could not be launched
LaunchError(j, i) ==
  /\ i \in 1..Len(procs[j])
  /\ faults < run.faults
  /\ faults' = faults + 1
  /\ procs[j][i] = "running"
  /\ LET s0 == EngineState
         s1 == [s0 EXCEPT !.dl[j].info.status = "error", !.procs[j][i] = "errored"]
         s2 == Broadcast(s1, "status-change", j)
         s3 == [s2 EXCEPT !.active = @ \ {j}]
     IN  Commit(ProcessQueue(s3))
  /\ UNCHANGED <<historyList, nextId, cancelRequested, run, artifact, envvars>>

\* a retry that puts the job back into the queue and runs a promotion pass
RetryTimerViaQueue(j) ==
  /\ j \in retryTimers
  /\ LET s0 == EngineState
     IN  Commit(ProcessQueue([s0 EXCEPT !.timers = @ \ {j},
                                        !.queue = IF j \in s0.active THEN Append(@, j) ELSE @]))
  /\ UNCHANGED <<historyList, nextId, cancelRequested, faults, run, artifact, envvars>>

\* the retry backoff timer: setTimeout(() => startDownload(id), RETRY_DELAY)
RetryTimer(j) ==
  /\ j \in retryTimers
  /\ LET s0 == EngineState
     IN  Commit(StartDownload([s0 EXCEPT !.timers = @ \ {j}], j))
  /\ UNCHANGED <<historyList, nextId, cancelRequested, faults, run, artifact, envvars>>

\* POST /cancel for a tracked id
Cancel(j) ==
  /\ faults < run.faults
  /\ faults' = faults + 1
  /\ j \in activeDownloads
  /\ LET s0 == EngineState
         s1 == Kill(s0, j, download[j].process)
         s2 == [s1 EXCEPT !.dl[j].info.status = "cancelled"]
         s3 == Broadcast(s2, "status-change", j)
     IN  Commit([s3 EXCEPT !.active = @ \ {j}])
  /\ cancelRequested' = cancelRequested \cup {j}
  /\ UNCHANGED <<historyList, nextId, run, artifact, envvars>>

\* the body of POST /cancel-all's activeDownloads.forEach, for the ids js
\* taken in the Map's order
RECURSIVE CancelEach(_, _)
CancelEach(s, js) ==
  IF js = {} THEN s
  ELSE LET j  == CHOOSE k \in js : \A m \in js : k <= m
           s1 == Kill(s, j, s.dl[j].process)
           s2 == [s1 EXCEPT !.dl[j].info.status = "cancelled"]
       IN  CancelEach(Broadcast(s2, "status-change", j), js \ {j})

\* POST /cancel-all
CancelAll ==
  /\ faults < run.faults
  /\ faults' = faults + 1
  /\ LET s1 == CancelEach(EngineState, activeDownloads)
     IN  Commit(SaveState([s1 EXCEPT !.active = {}]))
  /\ cancelRequested' = cancelRequested \cup activeDownloads
  /\ UNCHANGED <<historyList, nextId, run, artifact, envvars>>

\* loadState keeping the persisted status as it is
LoadInfoVerbatim(info) == info

\* loadState(): what a persisted info record becomes in the Map
LoadInfo(info) ==
  IF info.status \in {"downloading", "retrying"}
  THEN [info EXCEPT !.status = "interrupted"] ELSE info

\* The engine stops and is started again.  graceful: gracefulShutdown()
\* saved the state first; otherwise the process crashed.  The workers of
\* the old process are no longer attached to anything.
Restart(graceful) ==
  /\ faults < run.faults
  /\ faults' = faults + 1
  /\ LET file == IF graceful THEN [j \in activeDownloads |-> download[j].info]
                              ELSE stateFile
     IN  /\ stateFile' = file
         /\ activeDownloads' = DOMAIN file
         /\ download' = [j \in Ids |->
                           IF j \in DOMAIN file
                           THEN [info |-> LoadInfo(file[j]), config |-> NoConfig,
                                 process |-> 0, retryCount |-> 0]
                           ELSE download[j]]
  /\ downloadQueue' = <<>>
  /\ retryTimers' = {}
  /\ procs' = [j \in Ids |->
                 [i \in 1..Len(procs[j]) |->
                    IF procs[j][i] \in {"running", "killed", "errored", "fin1", "fin2"}
                    THEN "orphan" ELSE procs[j][i]]]
  /\ clients' = <<>>
  /\ conns' = [c \in Conns |->
                 IF conns[c].state = "open" THEN [conns[c] EXCEPT !.state = "closed"]
                 ELSE conns[c]]
  /\ UNCHANGED <<historyList, published, nextId, startOrder, cancelRequested, run,
                 clock, files, transfers, intake, storedUrl, parsed, artifact, probing>>

Next ==
  \/ \E req \in run.requests : Submit(req)
  \/ \E j \in Ids, i \in 1..(RETRY_ATTEMPTS + 1), p \in ProgressSamples : Data(j, i, p)
  \/ \E j \in Ids, i \in 1..(RETRY_ATTEMPTS + 1) : Timeout(j, i)
  \/ \E j \in Ids, i \in 1..(RETRY_ATTEMPTS + 1),
        code \in ExitCodes \cup {KilledCode, SpawnFailCode}, tt \in BOOLEAN :
          Close(j, i, code, tt)
  \/ \E j \in Ids, i \in 1..(RETRY_ATTEMPTS + 1), o \in run.outcomes :
        FinalizeHistory(j, i, o)
  \/ \E j \in Ids, i \in 1..(RETRY_ATTEMPTS + 1) : FinalizeDone(j, i)
  \/ \E j \in Ids, i \in 1..(RETRY_ATTEMPTS + 1) : LaunchError(j, i)
  \/ \E j \in Ids : RetryTimer(j)
  \/ \E j \in Ids : Cancel(j)
  \/ CancelAll
  \/ \E g \in BOOLEAN : Restart(g)

Init ==
  /\ InitEngine
  /\ run = [jobs |-> MaxJobs, faults |-> MaxFaults,
            maxConcurrent |-> MAX_CONCURRENT_DOWNLOADS, requests |-> Requests,
            outcomes |-> {PlainOutcome}]
  /\ files = {}

InitWide ==
  /\ InitEngine
  /\ run = [jobs |-> MaxJobsWide, faults |-> MaxFaultsWide, maxConcurrent |-> 1,
            requests |-> {VideoReq},
            outcomes |-> {PlainOutcome}]
  /\ files = {}

Spec == Init /\ [][Next]_qvars

SpecWide == InitWide /\ [][Next]_qvars

InitBackend ==
  /\ InitEngine
  /\ run = [jobs |-> MaxJobsBackend, faults |-> MaxFaultsBackend,
            maxConcurrent |-> MAX_CONCURRENT_DOWNLOADS, requests |-> AllRequests,
            outcomes |-> {PlainOutcome}]
  /\ files = {}

SpecBackend == InitBackend /\ [][Next]_qvars

InitPair ==
  /\ InitEngine
  /\ run = [jobs |-> MaxJobsPair, faults |-> MaxFaultsPair,
            maxConcurrent |-> MaxConcurrentPair, requests |-> Requests,
            outcomes |-> {PlainOutcome}]
  /\ files = {}

SpecPair == InitPair /\ [][Next]_qvars

\* What the runtime guarantees to the engine: a spawned worker's 'close'
\* event is delivered once the worker has exited, an armed backoff timer
\* fires, and the awaits of the close handler's success branch resolve.
\* Submissions, cancels, restarts, launch errors and timeouts may or may
\* not happen.
Fairness ==
  /\ \A j \in Ids, i \in 1..(RETRY_ATTEMPTS + 1) :
       /\ WF_qvars(\E code \in ExitCodes \cup {KilledCode, SpawnFailCode}, tt \in BOOLEAN :
                     Close(j, i, code, tt))
       /\ WF_qvars(\E o \in run.outcomes : FinalizeHistory(j, i, o))
       /\ WF_qvars(FinalizeDone(j, i))
  /\ \A j \in Ids : WF_qvars(RetryTimer(j))

SpecFair == Init /\ [][Next]_qvars /\ Fairness

\* the run in which the size measurement and the file move can fail
InitFiler ==
  /\ InitEngine
  /\ run = [jobs |-> MaxJobsFiler, faults |-> MaxFaultsFiler,
            maxConcurrent |-> MAX_CONCURRENT_DOWNLOADS, requests |-> {VideoReq},
            outcomes |-> Outcomes]
  /\ files = {}

SpecFiler == InitFiler /\ [][Next]_qvars
(***************************************************************************)
(* The admission-by-rejection revision, src/server.js.  It has the same    *)
(* Map, broadcast(), saveState() and loadState(); it has no queue, and a   *)
(* request is launched at once or refused.  retryCount is a parameter of   *)
(* the closure launch(retryCount): launch(k) spawns the job's (k+1)-th     *)
(* worker.                                                                 *)
(***************************************************************************)

\* launch(retryCount) of job id: spawn the worker and (re)register the entry
Launch(s, id) ==
  [s EXCEPT !.procs[id] = Append(@, "running"),
            !.dl[id].process = Len(s.procs[id]) + 1,
            !.dl[id].retryCount = Len(s.procs[id]),
            !.active = @ \cup {id}]

\* POST /download of server.js, for a request that passed the validation
LegacySubmit(req) ==
  /\ nextId <= run.jobs
  /\ Cardinality(activeDownloads) < run.maxConcurrent
  /\ LET id == nextId
         s0 == EngineState
         s1 == [s0 EXCEPT !.dl[id] = [info |-> [status |-> "downloading", progress |-> 0],
                                      config |-> req @@ [absent |-> FALSE],
                                      process |-> 0, retryCount |-> 0]]
     IN  Commit(Launch(s1, id))
  /\ nextId' = nextId + 1
  /\ UNCHANGED <<historyList, cancelRequested, faults, run, artifact, envvars>>

\* stdout/stderr 'data' handlers of launch
LegacyData(j, i, p) ==
  /\ i \in 1..Len(procs[j])
  /\ procs[j][i] \in LiveStates
  /\ faults < run.faults
  /\ LET s0 == EngineState
         be == Backend(download[j].config)
         v  == IF be = "yt-dlp" THEN (IF p < 100 THEN p ELSE 100)
               ELSE IF be = "ffmpeg" THEN (IF p < 99 THEN p ELSE 99)
               ELSE p
         s1 == [s0 EXCEPT !.dl[j].info.progress = v]
     IN  Commit(Broadcast(s1, "update", j))
  /\ faults' = faults + 1
  /\ UNCHANGED <<historyList, nextId, cancelRequested, run, artifact, envvars>>

\* the timeout armed by launch
LegacyTimeout(j, i) ==
  /\ i \in 1..Len(procs[j])
  /\ faults < run.faults
  /\ faults' = faults + 1
  /\ procs[j][i] = "running"
  /\ Commit(Kill(EngineState, j, i))
  /\ UNCHANGED <<historyList, nextId, cancelRequested, run, artifact, envvars>>

\* proc.on("close") of launch(i - 1)
LegacyClose(j, i, code, transientText) ==
  /\ i \in 1..Len(procs[j])
  /\ code # 0 => faults < run.faults
  /\ faults' = IF code # 0 THEN faults + 1 ELSE faults
  /\ code \in CodesOf(procs[j][i])
  /\ (code = 0 \/ procs[j][i] = "errored") => ~transientText
  /\ LET s0 == EngineState
     IN  IF code = 0
         THEN LET s1 == [s0 EXCEPT !.dl[j].info.status = "completed",
                                   !.dl[j].info.progress = 100,
                                   !.procs[j][i] = "done0"]
                  s2 == Broadcast(s1, "status-change", j)
              IN  Commit([s2 EXCEPT !.active = @ \ {j}])
         ELSE IF ShouldRetry(i - 1, code, transientText)
         THEN LET s1 == [s0 EXCEPT !.dl[j].info.status = "retrying",
                                   !.procs[j][i] = "doneT"]
                  s2 == Broadcast(s1, "update", j)
              IN  Commit([s2 EXCEPT !.timers = @ \cup {j}])
         ELSE LET s1 == [s0 EXCEPT !.dl[j].info.status = "error",
                                   !.procs[j][i] =
                                      IF transientText \/ code = 3 \/ code = 7
                                      THEN "doneT" ELSE "doneF"]
                  s2 == Broadcast(s1, "status-change", j)
              IN  Commit([s2 EXCEPT !.active = @ \ {j}])
  /\ UNCHANGED <<historyList, nextId, cancelRequested, run, artifact, envvars>>

\* proc.on("error") of launch
LegacyLaunchError(j, i) ==
  /\ i \in 1..Len(procs[j])
  /\ faults < run.faults
  /\ faults' = faults + 1
  /\ procs[j][i] = "running"
  /\ LET s0 == EngineState
         s1 == [s0 EXCEPT !.dl[j].info.status = "error", !.procs[j][i] = "errored"]
         s2 == Broadcast(s1, "status-change", j)
     IN  Commit([s2 EXCEPT !.active = @ \ {j}])
  /\ UNCHANGED <<historyList, nextId, cancelRequested, run, artifact, envvars>>

\* the retry backoff timer: setTimeout(() => launch(retryCount + 1), RETRY_DELAY)
LegacyRetryTimer(j) ==
  /\ j \in retryTimers
  /\ LET s0 == EngineState
     IN  Commit(Launch([s0 EXCEPT !.timers = @ \ {j}], j))
  /\ UNCHANGED <<historyList, nextId, cancelRequested, faults, run, artifact, envvars>>

NextLegacy ==
  \/ \E req \in run.requests : LegacySubmit(req)
  \/ \E j \in Ids, i \in 1..(RETRY_ATTEMPTS + 1), p \in ProgressSamples : LegacyData(j, i, p)
  \/ \E j \in Ids, i \in 1..(RETRY_ATTEMPTS + 1) : LegacyTimeout(j, i)
  \/ \E j \in Ids, i \in 1..(RETRY_ATTEMPTS + 1),
        code \in ExitCodes \cup {KilledCode, SpawnFailCode}, tt \in BOOLEAN :
          LegacyClose(j, i, code, tt)
  \/ \E j \in Ids, i \in 1..(RETRY_ATTEMPTS + 1) : LegacyLaunchError(j, i)
  \/ \E j \in Ids : LegacyRetryTimer(j)
  \/ \E j \in Ids : Cancel(j)
  \/ CancelAll
  \/ \E g \in BOOLEAN : Restart(g)

SpecLegacy == Init /\ [][NextLegacy]_qvars
(***************************************************************************)
(* GET /transfer: a completed artifact is streamed to the caller and       *)
(* unlinked once it was delivered.  A file that is unlinked while it is    *)
(* being read stays readable through the descriptors already open.        *)
(***************************************************************************)

\* the engine's variables, which the retrieval and subscription handlers
\* leave alone
enginevars == <<activeDownloads, download, downloadQueue, procs, retryTimers, stateFile,
                historyList, published, nextId, startOrder, cancelRequested, faults, run>>

\* the handler up to res.download: 404 unless the file exists
TransferRequest(r, f) ==
  /\ transfers[r].state = "idle"
  /\ transfers' = [transfers EXCEPT ![r] =
                     [state |-> IF f \in files THEN "accepted" ELSE "notfound", file |-> f]]
  /\ UNCHANGED <<enginevars, clients, conns, clock, files, intake, storedUrl, parsed,
                 artifact, probing>>

\* res.download opens the file: the stream starts, or fails when the file
\* is gone by now (the callback gets the error, nothing is unlinked)
TransferOpen(r) ==
  /\ transfers[r].state = "accepted"
  /\ transfers' = [transfers EXCEPT ![r].state =
                     IF transfers[r].file \in files THEN "streaming" ELSE "failed"]
  /\ UNCHANGED <<enginevars, clients, conns, clock, files, intake, storedUrl, parsed,
                 artifact, probing>>

\* the callback of res.download: err is set when the caller went away
\* before the end; without error the file is unlinked (unlinking a file
\* that is already gone is caught and logged)
TransferEnd(r, err) ==
  /\ transfers[r].state = "streaming"
  /\ transfers' = [transfers EXCEPT ![r].state = IF err THEN "aborted" ELSE "delivered"]
  /\ files' = IF err THEN files ELSE files \ {transfers[r].file}
  /\ UNCHANGED <<enginevars, clients, conns, clock, intake, storedUrl, parsed,
                 artifact, probing>>

NextTransfer ==
  \/ \E r \in Retrievals, f \in Artifacts : TransferRequest(r, f)
  \/ \E r \in Retrievals : TransferOpen(r)
  \/ \E r \in Retrievals, err \in BOOLEAN : TransferEnd(r, err)

\* the artifacts of earlier downloads are in the downloads directory
InitTransfer ==
  /\ InitEngine
  /\ run = [jobs |-> 0, faults |-> 0, maxConcurrent |-> MAX_CONCURRENT_DOWNLOADS,
            requests |-> Requests,
            outcomes |-> {PlainOutcome}]
  /\ files \in SUBSET Artifacts

SpecTransfer == InitTransfer /\ [][NextTransfer]_qvars

(***************************************************************************)
(* POST /download up to the creation of the job: validation of the url,    *)
(* repair of a url that carries header text, probes, storage check.        *)
(*                                                                         *)
(* A submitted url is a string; it is modelled as the sequence of the      *)
(* pieces it is made of.  A piece is an absolute url (scheme, separator    *)
(* after the colon, host as its labels, path), a magnet link (with or      *)
(* without a "referer=" parameter at its end), or a line break.            *)
(***************************************************************************)
Piece(kind, scheme, sep, host, path) ==
  [kind |-> kind, scheme |-> scheme, sep |-> sep, host |-> host, path |-> path]

Pieces ==
  { Piece("magnet", "magnet", "", <<>>, "?xt=urn:btih:0"),
    Piece("url", "https", "//", <<"good", "com">>, "/a.m3u8"),
    Piece("url", "https", "\\\\", <<"good", "com">>, "/"),
    Piece("url", "http", "//", <<"evil", "com">>, "/b.bin"),
    Piece("url", "ftp", "//", <<"good", "com">>, "/c.bin"),
    Piece("magnet", "magnet", "", <<>>, "?xt=urn:btih:0&referer="),
    Piece("nl", "", "", <<>>, "\n") }

RECURSIVE SeqsUpTo(_, _)
SeqsUpTo(S, n) ==
  IF n = 0 THEN {<<>>}
  ELSE LET shorter == SeqsUpTo(S, n - 1)
       IN  shorter \cup {Append(u, x) : u \in shorter, x \in S}

\* the url fields a request can carry; <<>> is a request without url
Urls == SeqsUpTo(Pieces, MaxUrlLen)

\* process.env.ALLOWED_DOMAINS of the submission run
ALLOWED_DOMAINS == {<<"good", "com">>}

\* url.startsWith("magnet:")
StartsWithMagnet(u) == u # <<>> /\ u[1].kind = "magnet"

\* new URL(url): tabs and line breaks are removed from the input; a special
\* scheme (http, https, ftp) takes "\\" for "//"; the host is what follows;
\* an input without a scheme throws
ParseURL(u) ==
  LET IsText(x) == x.kind # "nl"
      stripped == SelectSeq(u, IsText)
  IN  IF stripped = <<>> \/ stripped[1].kind \notin {"url", "magnet"}
      THEN [ok |-> FALSE, protocol |-> "", hostname |-> <<>>]
      ELSE [ok |-> TRUE, protocol |-> stripped[1].scheme, hostname |-> stripped[1].host]

\* a protocol test that lets every url through
IsAllowedProtocolAny(u) == TRUE

\* isAllowedProtocol(url)
IsAllowedProtocol(u) ==
  IF StartsWithMagnet(u) THEN TRUE
  ELSE ParseURL(u).ok /\ ParseURL(u).protocol \in {"http", "https"}

\* hostname === domain || hostname.endsWith("." + domain)
HostMatches(h, d) ==
  \/ h = d
  \/ Len(h) > Len(d) /\ SubSeq(h, Len(h) - Len(d) + 1, Len(h)) = d

\* isDomainAllowed(url)
IsDomainAllowed(u) ==
  IF ALLOWED_DOMAINS = {} THEN TRUE
  ELSE ParseURL(u).ok /\ \E d \in ALLOWED_DOMAINS : HostMatches(ParseURL(u).hostname, d)

\* url.includes('\n') || url.includes('\r') || /referer[:=]/i.test(url)
NeedsRepair(u) ==
  \E k \in 1..Len(u) : u[k].kind = "nl" \/ u[k].path = "?xt=urn:btih:0&referer="

\* url.match(/https?:\/\/[^\s'"]+/i): the leftmost "http://" or "https://"
\* and what follows it up to the next white space; <<>> when nothing matches
ExtractUrl(u) ==
  LET starts == {k \in 1..Len(u) :
                   u[k].kind = "url" /\ u[k].scheme \in {"http", "https"} /\ u[k].sep = "//"}
  IN  IF starts = {} THEN <<>>
      ELSE LET from == CHOOSE k \in starts : \A m \in starts : k <= m
               ends == {k \in from..Len(u) : u[k].kind = "nl"}
               to   == IF ends = {} THEN Len(u)
                       ELSE (CHOOSE k \in ends : \A m \in ends : k <= m) - 1
           IN  SubSeq(u, from, to)

\* url.match(/\.(m3u8|mpd)/i)
IsManifest(u) == \E k \in 1..Len(u) : u[k].path = "/a.m3u8"

\* the handler up to its first await: 400 without url or with a refused
\* protocol, 403 with a refused host, then the repair of the url
Validate(u) ==
  IF u = <<>> THEN [phase |-> "rejected400", raw |-> u, url |-> <<>>]
  ELSE IF ~IsAllowedProtocol(u) THEN [phase |-> "rejected400", raw |-> u, url |-> <<>>]
  ELSE IF ~StartsWithMagnet(u) /\ ~IsDomainAllowed(u)
  THEN [phase |-> "rejected403", raw |-> u, url |-> <<>>]
  ELSE IF NeedsRepair(u)
  THEN IF ExtractUrl(u) # <<>>
       THEN [phase |-> "probing", raw |-> u, url |-> ExtractUrl(u)]
       ELSE [phase |-> "rejected400", raw |-> u, url |-> <<>>]
  ELSE [phase |-> "probing", raw |-> u, url |-> u]

\* POST /download arrives with url u (requests beyond the run's number of
\* jobs are followed only when they are refused)
IntakeReceive(u) ==
  /\ intake.phase # "probing"
  /\ nextId <= run.jobs \/ Validate(u).phase # "probing"
  /\ intake' = Validate(u)
  /\ UNCHANGED <<enginevars, clients, conns, clock, files, transfers, storedUrl, parsed,
                 artifact, probing>>

\* the handler after the probes.  dash: the HEAD answer has a DASH/manifest
\* content type; short: the answer has a content-length that exceeds the
\* free space (looked at for direct files only).
IntakeFinish(dash, short) ==
  /\ intake.phase = "probing"
  /\ IF ~IsManifest(intake.url) /\ short
     THEN /\ intake' = [phase |-> "rejected507", raw |-> <<>>, url |-> <<>>]
          /\ UNCHANGED <<enginevars, clients, conns, clock, files, transfers, storedUrl, parsed,
                         artifact, probing>>
     ELSE /\ CreateJob([magnet |-> StartsWithMagnet(intake.url), platform |-> FALSE,
                        manifest |-> IsManifest(intake.url), forceVideo |-> dash])
          /\ storedUrl' = [storedUrl EXCEPT ![nextId] = intake.url]
          /\ intake' = [phase |-> "created", raw |-> <<>>, url |-> <<>>]
          /\ UNCHANGED probing

NextIntake ==
  \/ \E u \in Urls : IntakeReceive(u)
  \/ \E dash \in BOOLEAN, short \in BOOLEAN : IntakeFinish(dash, short)

InitIntake ==
  /\ InitEngine
  /\ run = [jobs |-> MaxJobsIntake, faults |-> 0,
            maxConcurrent |-> MAX_CONCURRENT_DOWNLOADS, requests |-> Requests,
            outcomes |-> {PlainOutcome}]
  /\ files = {}

SpecIntake == InitIntake /\ [][NextIntake]_qvars

(***************************************************************************)
(* POST /download handlers that overlap: each handler awaits its HEAD      *)
(* probes before it draws the job's id and appends it to the queue.        *)
(***************************************************************************)

\* the number of requests received so far
Arrived == Cardinality(DOMAIN probing)

\* the handler of request r: not started until the request is received
ProbeOf(r) == IF r \in DOMAIN probing THEN probing[r] ELSE NoSubmission

\* POST /download, request r, up to the first await (the content-type
\* HEAD probe); arrival: its rank in the order of receipt
OverlapReceive(r, req) ==
  /\ ProbeOf(r).state = "none"
  /\ probing' = [q \in DOMAIN probing \cup {r} |->
                   IF q = r THEN [state |-> "probing", arrival |-> Arrived + 1,
                                  id |-> 0, req |-> req]
                   ELSE probing[q]]
  /\ UNCHANGED <<enginevars, clients, conns, clock, files, transfers, intake, storedUrl,
                 parsed, artifact>>

\* the handler of request r after its probes have answered (dash: the HEAD
\* answer has a DASH/manifest content type): id, job, queue, promotion pass
OverlapFinish(r, dash) ==
  /\ ProbeOf(r).state = "probing"
  /\ CreateJob([probing[r].req EXCEPT !.forceVideo = dash])
  /\ probing' = [probing EXCEPT ![r].state = "accepted", ![r].id = nextId]
  /\ UNCHANGED <<intake, storedUrl>>

NextOverlap ==
  \/ \E r \in Submissions, req \in run.requests : OverlapReceive(r, req)
  \/ \E r \in Submissions, dash \in BOOLEAN : OverlapFinish(r, dash)
  \/ \E j \in Ids, i \in 1..(RETRY_ATTEMPTS + 1),
        code \in ExitCodes \cup {KilledCode, SpawnFailCode}, tt \in BOOLEAN :
          Close(j, i, code, tt)
  \/ \E j \in Ids, i \in 1..(RETRY_ATTEMPTS + 1), o \in run.outcomes :
        FinalizeHistory(j, i, o)
  \/ \E j \in Ids, i \in 1..(RETRY_ATTEMPTS + 1) : FinalizeDone(j, i)
  \/ \E j \in Ids : RetryTimer(j)

InitOverlap ==
  /\ InitEngine
  /\ run = [jobs |-> MaxSubmissions, faults |-> MaxFaultsOverlap,
            maxConcurrent |-> 1, requests |-> Requests,
            outcomes |-> {PlainOutcome}]
  /\ files = {}

SpecOverlap == InitOverlap /\ [][NextOverlap]_qvars

(***************************************************************************)
(* GET /events: the subscribers of the event stream.                       *)
(***************************************************************************)

\* the "update" events a new subscriber is sent: one per tracked job, in
\* the Map's order
RECURSIVE CurrentList(_)
CurrentList(js) ==
  IF js = {} THEN <<>>
  ELSE LET j == CHOOSE k \in js : \A m \in js : k <= m
       IN  <<[id |-> j, status |-> download[j].info.status,
              progress |-> download[j].info.progress]>> \o CurrentList(js \ {j})

\* GET /events on connection c: the client is registered under
\* clientId = Date.now() and sent the current state
Subscribe(c) ==
  /\ conns[c].state = "none"
  /\ clients' = Append(clients, c)
  /\ conns' = [conns EXCEPT ![c] = [id |-> clock, state |-> "open", throws |-> FALSE,
                                    received |-> CurrentList(activeDownloads)]]
  /\ UNCHANGED <<enginevars, clock, files, transfers, intake, storedUrl, parsed,
                 artifact, probing>>

\* req.on("close") of connection c: every client registered under c's
\* clientId leaves the Array
Disconnect(c) ==
  /\ conns[c].state = "open"
  /\ LET Others(x) == conns[x].id # conns[c].id
     IN  clients' = SelectSeq(clients, Others)
  /\ conns' = [conns EXCEPT ![c].state = "closed"]
  /\ UNCHANGED <<enginevars, clock, files, transfers, intake, storedUrl, parsed,
                 artifact, probing>>

\* from now on res.write throws on connection c
BreakClient(c) ==
  /\ conns[c].state = "open"
  /\ ~conns[c].throws
  /\ conns' = [conns EXCEPT ![c].throws = TRUE]
  /\ UNCHANGED <<enginevars, clients, clock, files, transfers, intake, storedUrl, parsed,
                 artifact, probing>>

\* a millisecond passes
Tick ==
  /\ clock < MaxClock
  /\ clock' = clock + 1
  /\ UNCHANGED <<enginevars, clients, conns, files, transfers, intake, storedUrl, parsed,
                 artifact, probing>>

NextEvents ==
  \/ Next
  \/ \E c \in Conns : Subscribe(c)
  \/ \E c \in Conns : Disconnect(c)
  \/ \E c \in Conns : BreakClient(c)
  \/ Tick

InitEvents ==
  /\ InitEngine
  /\ run = [jobs |-> MaxJobsEvents, faults |-> MaxFaultsEvents,
            maxConcurrent |-> MAX_CONCURRENT_DOWNLOADS, requests |-> Requests,
            outcomes |-> {PlainOutcome}]
  /\ files = {}

SpecEvents == InitEvents /\ [][NextEvents]_qvars

(***************************************************************************)
(* The progress parsers of the data handlers (the same in both             *)
(* revisions).  A chunk of worker output is modelled by what the handler's *)
(* regular expressions find in it: -1 or "" where a pattern does not       *)
(* match.  A percentage with decimals is given in tenths of a percent.     *)
(***************************************************************************)
Backends == {"yt-dlp", "ffmpeg", "aria2c"}

\* (\d+\.?\d*)% of a yt-dlp line, in tenths: 7.5%, 100.0%, 250.0%
PctTenths == {75, 1000, 2500}

\* (\d+)% of an aria2c line
PctDigits == {7, 100, 250}

\* what the four patterns of the yt-dlp stdout handler find in a chunk
YtDlpChunks ==
  [backend : {"yt-dlp"}, pct : PctTenths \cup {-1}, size : {"", "5MiB"},
   speed : {"", "1MiB/s"}, eta : {"", "00:10"}]

\* what the aria2c stdout handler finds: the whole progress summary
\* ("full"), only "(N%)" ("simple"), or neither
AriaChunks ==
  [backend : {"aria2c"}, kind : {"full"}, cur : {"1MiB"}, total : {"5MiB"},
   pct : PctDigits, dl : {"1MiB"}, eta : {"9s"}]
  \cup [backend : {"aria2c"}, kind : {"simple"}, cur : {""}, total : {""},
        pct : PctDigits, dl : {""}, eta : {""}]
  \cup [backend : {"aria2c"}, kind : {"none"}, cur : {""}, total : {""},
        pct : {-1}, dl : {""}, eta : {""}]

\* time=H:M:S of an ffmpeg stderr line, as its total of seconds
FfmpegChunks == [backend : {"ffmpeg"}, secs : {-1, 35, 5000}]

Floor10(n) == n \div 10

MinOf(a, b) == IF a < b THEN a ELSE b

\* a yt-dlp handler that resets the fields its chunk does not mention
YtDlpDataBlanking(info, c) ==
  IF c.pct # -1
  THEN [info EXCEPT !.progress = MinOf(100, Floor10(c.pct)),
                    !.fullSize = c.size,
                    !.speed = c.speed,
                    !.eta = c.eta,
                    !.event = TRUE, !.last = c]
  ELSE [info EXCEPT !.event = FALSE, !.last = c]

\* proc.stdout.on("data") of the yt-dlp branch; event: broadcast was called
YtDlpData(info, c) ==
  IF c.pct # -1
  THEN [info EXCEPT !.progress = MinOf(100, Floor10(c.pct)),
                    !.fullSize = IF c.size # "" THEN c.size ELSE @,
                    !.speed = IF c.speed # "" THEN c.speed ELSE @,
                    !.eta = IF c.eta # "" THEN c.eta ELSE @,
                    !.event = TRUE, !.last = c]
  ELSE [info EXCEPT !.event = FALSE, !.last = c]

\* proc.stderr.on("data") of the ffmpeg branch
FfmpegData(info, c) ==
  IF c.secs # -1
  THEN [info EXCEPT !.eta = "encoded", !.progress = MinOf(99, Floor10(c.secs)),
                    !.event = TRUE, !.last = c]
  ELSE [info EXCEPT !.event = FALSE, !.last = c]

\* proc.stdout.on("data") of the aria2c branch
AriaData(info, c) ==
  IF c.kind = "full"
  THEN [info EXCEPT !.currentSize = c.cur, !.fullSize = c.total, !.progress = c.pct,
                    !.speed = c.dl, !.eta = c.eta, !.event = TRUE, !.last = c]
  ELSE IF c.kind = "simple"
  THEN [info EXCEPT !.progress = c.pct, !.event = TRUE, !.last = c]
  ELSE [info EXCEPT !.event = FALSE, !.last = c]

\* startDownload spawns the job's worker on backend b
ParserSpawn(b) ==
  /\ parsed.backend = "none"
  /\ parsed' = FreshInfo(b)
  /\ UNCHANGED <<enginevars, clients, conns, clock, files, transfers, intake, storedUrl,
                 artifact, probing>>

\* a worker of the given backend writes chunk c
ParseChunk(c) ==
  /\ parsed.backend = c.backend
  /\ parsed' = IF c.backend = "yt-dlp" THEN YtDlpData(parsed, c)
               ELSE IF c.backend = "ffmpeg" THEN FfmpegData(parsed, c)
               ELSE AriaData(parsed, c)
  /\ UNCHANGED <<enginevars, clients, conns, clock, files, transfers, intake, storedUrl,
                 artifact, probing>>

NextParser ==
  \/ \E b \in Backends : ParserSpawn(b)
  \/ \E c \in YtDlpChunks \cup FfmpegChunks \cup AriaChunks : ParseChunk(c)

\* a job of any backend starts with the progress fields of a new job
InitParser ==
  /\ InitEngine
  /\ run = [jobs |-> 0, faults |-> 0, maxConcurrent |-> MAX_CONCURRENT_DOWNLOADS,
            requests |-> Requests,
            outcomes |-> {PlainOutcome}]
  /\ files = {}

SpecParser == InitParser /\ [][NextParser]_qvars

(***************************************************************************)
(* Properties                                                              *)
(***************************************************************************)
Tracked(j) == j \in activeDownloads
Status(j) == download[j].info.status
Spawns(j) == Len(procs[j])
LiveWorkers(j) == {i \in 1..Len(procs[j]) : procs[j][i] \in LiveStates}
Running == {j \in activeDownloads : Status(j) \in {"downloading", "retrying"}}
Queued == SeqToSet(downloadQueue)
Started == SeqToSet(startOrder)
\* tracked jobs in status queued whose id waits in the queue
Waiting == {j \in Queued : Tracked(j) /\ Status(j) = "queued"}

\* C1: at every instant the number of tracked jobs in status downloading or
\* retrying is at most MAX_CONCURRENT_DOWNLOADS.
C1_ConcurrencyBound ==
  Cardinality({j \in activeDownloads : download[j].info.status \in {"downloading", "retrying"}})
    <= run.maxConcurrent

\* C1 witness: every slot is taken, one of them by a job in its retry
\* backoff, while another job waits in the queue.
C1_Witness ==
  /\ Cardinality(Running) = run.maxConcurrent
  /\ \E j \in Running : Status(j) = "retrying" /\ j \in retryTimers
  /\ Waiting # {}

\* C2 (as claimed): a tracked job in status downloading has exactly one live
\* worker, and a tracked job in status queued, completed, error, cancelled
\* or interrupted has none.
C2_OneWorkerPerDownloadingJob ==
  \A j \in activeDownloads :
    /\ Status(j) = "downloading" => Cardinality(LiveWorkers(j)) = 1
    /\ Status(j) \in {"queued", "completed", "error", "cancelled", "interrupted"}
         => LiveWorkers(j) = {}

\* C3: promotion is FIFO.  Ids are assigned in the order of the appends to
\* the queue, so: the promoted ids are in increasing order, and no id still
\* in the queue is older than a promoted one.
C3_FifoPromotion ==
  /\ \A a, b \in 1..Len(startOrder) : a < b => startOrder[a] < startOrder[b]
  /\ \A a \in 1..Len(startOrder), q \in 1..Len(downloadQueue) :
        startOrder[a] < downloadQueue[q]

\* C3 witness: with one slot, three jobs were promoted one after the other
\* and a worker was started for each.
C3_Witness ==
  /\ run.maxConcurrent = 1
  /\ startOrder = <<1, 2, 3>>
  /\ \A j \in 1..3 : Spawns(j) >= 1

\* C4 (as claimed): a queued job is never left waiting beside a free slot
\* with nothing in progress that will run a promotion pass: when a slot is
\* free and a job waits, a worker or a completion is still in progress.
\* (Stated for the runs in which every promoted job got its worker.)
C4_QueuedJobNotStranded ==
  (/\ Waiting # {}
   /\ Cardinality(Running) < run.maxConcurrent
   /\ \A j \in Started : Spawns(j) >= 1)
    => \E j \in Ids : \E i \in 1..Len(procs[j]) :
          procs[j][i] \in {"running", "killed", "errored", "fin1", "fin2"}

\* C5 (as claimed): a job whose worker exited with code 0 has status
\* completed and progress 100 from then on, and once its finalization is
\* over, completed is the last status published for it and the status of
\* its history record.
C5_ExitZeroEndsCompleted ==
  \A j \in Ids : \A i \in 1..Len(procs[j]) :
    /\ procs[j][i] \in {"fin1", "fin2", "done0"}
         => Status(j) = "completed" /\ download[j].info.progress = 100
    /\ procs[j][i] = "done0"
         => /\ published[j][Len(published[j])] = "completed"
            /\ \E h \in 1..Len(historyList) :
                  historyList[h].id = j /\ historyList[h].status = "completed"

\* a job that was not cancelled, all of whose workers failed with a
\* transient signature, and that ended in error
ExhaustedByTransient(j) ==
  /\ Spawns(j) >= 1
  /\ \A i \in 1..Len(procs[j]) : procs[j][i] = "doneT"
  /\ j \notin cancelRequested
  /\ Status(j) = "error"

\* C6: retryCount never exceeds RETRY_ATTEMPTS, no job gets more than
\* RETRY_ATTEMPTS + 1 workers, and a job whose every attempt failed with a
\* transient signature has had exactly RETRY_ATTEMPTS + 1 workers when it
\* is in error.
C6_RetryBudget ==
  \A j \in Ids :
    /\ download[j].retryCount <= RETRY_ATTEMPTS
    /\ Spawns(j) <= RETRY_ATTEMPTS + 1
    /\ ExhaustedByTransient(j) => Spawns(j) = RETRY_ATTEMPTS + 1

\* C6 witness: a job went through all its attempts and is in error
C6_Witness ==
  \E j \in Ids : ExhaustedByTransient(j) /\ Spawns(j) = RETRY_ATTEMPTS + 1

\* C7 (as claimed): a job cancelled before it was ever promoted is no
\* longer in the queue and never gets a worker.
C7_CancelQueuedLeavesQueue ==
  \A j \in cancelRequested \ Started : j \notin Queued /\ Spawns(j) = 0

\* C8 (as claimed): once a cancel was accepted for a job, no worker is
\* started for it and no handler, retry timer included, puts it back into
\* the job table.
C8_NoRestartAfterCancel ==
  [][\A j \in cancelRequested :
        /\ Len(procs'[j]) = Len(procs[j])
        /\ (j \notin activeDownloads /\ ~(\E g \in BOOLEAN : Restart(g)))
             => j \notin activeDownloads']_qvars

\* C9 (as claimed): cancel-all publishes cancelled for every tracked job
\* and leaves the job table and the queue empty, and no worker is started
\* afterwards for a cancelled job.
C9_CancelAllDrains ==
  [][/\ CancelAll =>
          /\ activeDownloads' = {}
          /\ downloadQueue' = <<>>
          /\ \A j \in activeDownloads :
                published'[j][Len(published'[j])] = "cancelled"
     /\ \A j \in cancelRequested : Len(procs'[j]) = Len(procs[j])]_qvars

\* C10: a job persisted as downloading or retrying is loaded as
\* interrupted, with no worker and outside the queue; a tracked job in
\* status interrupted has no live worker, no retry timer and is not queued,
\* and it is never started: no worker is spawned for it and its status only
\* changes by a cancel.
C10_InterruptedNeverResumed ==
  [][/\ (\E g \in BOOLEAN : Restart(g)) =>
          \A j \in DOMAIN stateFile' :
             stateFile'[j].status \in {"downloading", "retrying"}
               => /\ j \in activeDownloads'
                  /\ download'[j].info.status = "interrupted"
                  /\ download'[j].process = 0
                  /\ j \notin SeqToSet(downloadQueue')
     /\ \A j \in activeDownloads :
          Status(j) = "interrupted"
            => /\ LiveWorkers(j) = {} /\ j \notin retryTimers /\ j \notin Queued
               /\ procs'[j] = procs[j]
               /\ download'[j].info.status \in {"interrupted", "cancelled"}]_qvars

\* C10 witness: a job that had a worker is tracked as interrupted
C10_Witness ==
  \E j \in activeDownloads :
    Status(j) = "interrupted" /\ download[j].process = 0 /\ Spawns(j) >= 1

\* C11: at a stop of the engine (graceful shutdown, or crash), every job
\* that is downloading or retrying is in the job table after the restart,
\* with status interrupted.
C11_InFlightSurvivesRestart ==
  [][(\E g \in BOOLEAN : Restart(g)) =>
       \A j \in activeDownloads :
         Status(j) \in {"downloading", "retrying"} =>
           j \in activeDownloads' /\ download'[j].info.status = "interrupted"]_qvars

\* C11 witness: a job that was waiting for its retry when the engine
\* stopped is tracked as interrupted after the restart
C11_Witness ==
  \E j \in activeDownloads :
    /\ Status(j) = "interrupted"
    /\ stateFile[j].status = "retrying"
    /\ published[j][Len(published[j])] = "retrying"

\* C12: the statuses published for a job follow
\* queued -> downloading -> (retrying -> downloading)* -> completed | error |
\* cancelled (queued -> cancelled and retrying -> cancelled allowed), and
\* once a job is completed, error or cancelled its status does not change.
C12_StatusPath ==
  [][LET StatusStep(a, b) ==
           \/ a = b
           \/ a = "queued" /\ b \in {"downloading", "cancelled"}
           \/ a = "downloading" /\ b \in {"retrying", "completed", "error", "cancelled"}
           \/ a = "retrying" /\ b \in {"downloading", "cancelled"}
     IN  \A j \in Ids :
           /\ \A k \in 1..(Len(published'[j]) - 1) :
                StatusStep(published'[j][k], published'[j][k + 1])
           /\ Status(j) \in {"completed", "error", "cancelled"} =>
                download'[j].info.status = Status(j)]_qvars

\* C13: at most one retrieval of an artifact succeeds, and a retrieval
\* that starts or runs while another one delivers the artifact does not
\* deliver it.
C13_AtMostOnceRetrieval ==
  \A f \in Artifacts :
    Cardinality({r \in Retrievals :
                   transfers[r].file = f /\ transfers[r].state = "delivered"}) <= 1

\* C14: at a non-zero exit of a worker the job goes to retrying (one more
\* retry counted, backoff timer armed) exactly when retryCount < MaxRetries
\* and the error text has a transient signature or the code is 3 or 7;
\* otherwise it goes to error, leaves the table and no timer is armed; a
\* job in error gets no further worker.
C14_RetryDecision ==
  [][/\ \A j \in {k \in Ids : procs'[k] # procs[k] /\ faults' # faults},
          i \in 1..(RETRY_ATTEMPTS + 1),
          code \in (ExitCodes \cup {KilledCode, SpawnFailCode}) \ {0}, tt \in BOOLEAN :
          Close(j, i, code, tt) =>
            IF download[j].retryCount < RETRY_ATTEMPTS /\ (tt \/ code \in {3, 7})
            THEN /\ download'[j].info.status = "retrying"
                 /\ download'[j].retryCount = download[j].retryCount + 1
                 /\ retryTimers' = retryTimers \cup {j}
            ELSE /\ download'[j].info.status = "error"
                 /\ download'[j].retryCount = download[j].retryCount
                 /\ j \notin activeDownloads'
                 /\ retryTimers' = retryTimers
     /\ \A j \in Ids : Status(j) = "error" => Len(procs'[j]) = Len(procs[j])]_qvars

\* C14 witness: a job was retried on exit code 3 or 7 or on a transient
\* text, and with the budget used up the next transient failure made it error
C14_Witness ==
  \E j \in Ids :
    /\ Spawns(j) = RETRY_ATTEMPTS + 1
    /\ download[j].retryCount = RETRY_ATTEMPTS
    /\ procs[j][Spawns(j)] = "doneT"
    /\ Status(j) = "error"
    /\ j \notin activeDownloads
    /\ j \notin cancelRequested

\* C15: the 'error' event of a worker makes its job error at once: it
\* leaves the job table, no retry is counted and no timer armed, and the
\* promotion pass has run (no queued job is left beside a free slot, unless
\* the pass was cut short by a start that threw); the 'close' event that
\* follows changes none of this.
C15_LaunchErrorTerminal ==
  [][\A j \in Ids, i \in 1..(RETRY_ATTEMPTS + 1) :
       /\ (procs'[j] # procs[j] /\ LaunchError(j, i)) =>
            /\ download'[j].info.status = "error"
            /\ j \in activeDownloads /\ j \notin activeDownloads'
            /\ download'[j].retryCount = download[j].retryCount
            /\ retryTimers' = retryTimers
            /\ Len(procs'[j]) = Len(procs[j])
            /\ \/ downloadQueue' = <<>>
               \/ Cardinality({k \in activeDownloads' :
                                 download'[k].info.status \in {"downloading", "retrying"}})
                    >= run.maxConcurrent
               \/ \E k \in activeDownloads' :
                    download'[k].info.status = "downloading" /\ download'[k].process = 0
       /\ (i <= Len(procs[j]) /\ procs[j][i] = "errored"
             /\ ~(\E g \in BOOLEAN : Restart(g))) =>
            /\ download'[j].info.status = "error"
            /\ j \notin activeDownloads'
            /\ j \notin retryTimers'
            /\ Len(procs'[j]) = Len(procs[j])]_qvars

\* C15 witness: the first job's worker could not be launched; the job is in
\* error and out of the table, and the queued job got its slot and a worker
C15_Witness ==
  \E j \in Ids, k \in activeDownloads :
    /\ j # k
    /\ Spawns(j) = 1 /\ procs[j][1] \in {"errored", "doneF"}
    /\ Status(j) = "error" /\ j \notin activeDownloads
    /\ download[j].retryCount = 0
    /\ published[j] = <<"queued", "downloading", "error">>
    /\ startOrder = <<j, k>>
    /\ Status(k) = "downloading" /\ LiveWorkers(k) # {}

\* C16: the timeout of an attempt kills the worker of that attempt and
\* nothing else (no other worker of the job or of another job, no status);
\* the exit of a killed worker is handled as a failure: the job goes to
\* retrying or to error as the retry policy decides.
C16_TimeoutKillsOwnWorker ==
  [][\A j \in {k \in Ids : procs' # procs /\ faults' # faults},
       i \in 1..(RETRY_ATTEMPTS + 1) :
       /\ Timeout(j, i) =>
            /\ procs[j][i] = "running"
            /\ procs' = [procs EXCEPT ![j][i] = "killed"]
            /\ UNCHANGED <<activeDownloads, download, downloadQueue, retryTimers>>
       /\ \A code \in (ExitCodes \cup {KilledCode}) \ {0}, tt \in BOOLEAN :
            (i <= Len(procs[j]) /\ procs[j][i] = "killed" /\ Close(j, i, code, tt)) =>
              /\ download'[j].info.status =
                   IF ShouldRetry(download[j].retryCount, code, tt)
                   THEN "retrying" ELSE "error"
              /\ procs'[j][i] \in {"doneT", "doneF"}]_qvars

\* C16 witness: the first attempt failed and was retried, and the second
\* attempt ran into its timeout: its worker is killed and has not exited yet
C16_Witness ==
  \E j \in activeDownloads \ cancelRequested :
    /\ procs[j] = <<"doneT", "killed">>
    /\ download[j].process = 2
    /\ Status(j) = "downloading"

\* C17: a submission without url, with a scheme other than http, https or
\* magnet, or with a host off the allow-list, and a submission of a direct
\* file that needs more than the free space, is rejected and changes
\* nothing: job table, queue, workers, published events and snapshot stay.
C17_RejectedBeforeCreation ==
  [][/\ LET u == intake'.raw
        IN  (/\ IntakeReceive(u)
             /\ \/ u = <<>>
                \/ ~StartsWithMagnet(u)
                     /\ \/ ~ParseURL(u).ok
                        \/ ParseURL(u).protocol \notin {"http", "https"}
                        \/ ~(\E d \in ALLOWED_DOMAINS :
                               HostMatches(ParseURL(u).hostname, d)))
            => /\ intake'.phase \in {"rejected400", "rejected403"}
               /\ UNCHANGED <<enginevars, conns, storedUrl, parsed,
                              artifact, probing>>
     /\ \A dash \in BOOLEAN :
          (IntakeFinish(dash, TRUE) /\ ~IsManifest(intake.url))
          => /\ intake'.phase = "rejected507"
             /\ UNCHANGED <<enginevars, conns, storedUrl>>]_qvars

\* C17 witness: a submission was refused for its host while a job is
\* running
C17_Witness ==
  /\ intake.phase = "rejected403"
  /\ \E j \in activeDownloads : Status(j) = "downloading" /\ LiveWorkers(j) # {}

\* C18: with an allow-list configured, the url stored in a job that is not
\* a magnet link has scheme http or https and a host on the allow-list.
C18_StoredUrlAllowed ==
  \A j \in activeDownloads :
    (storedUrl[j] # <<>> /\ ~StartsWithMagnet(storedUrl[j])) =>
      /\ ParseURL(storedUrl[j]).ok
      /\ ParseURL(storedUrl[j]).protocol \in {"http", "https"}
      /\ \E d \in ALLOWED_DOMAINS : HostMatches(ParseURL(storedUrl[j]).hostname, d)

\* C19: a new subscriber is sent exactly one event per tracked job, with
\* the job's current status and progress; and as long as a subscriber
\* stays connected (and its writes do not fail) every event published for
\* a job reaches it, in publication order.
C19_SubscriberGetsEveryEvent ==
  [][\A c \in Conns :
       /\ Subscribe(c) =>
            /\ Len(conns'[c].received) = Cardinality(activeDownloads)
            /\ \A j \in activeDownloads :
                 \E k \in 1..Len(conns'[c].received) :
                   conns'[c].received[k] =
                     [id |-> j, status |-> download[j].info.status,
                      progress |-> download[j].info.progress]
       /\ (conns[c].state = "open" /\ conns'[c].state = "open" /\ ~conns[c].throws) =>
            \A j \in Ids :
              LET About(e) == e.id = j
                  got  == SelectSeq(SubSeq(conns'[c].received, Len(conns[c].received) + 1,
                                           Len(conns'[c].received)), About)
                  sent == SubSeq(published'[j], Len(published[j]) + 1, Len(published'[j]))
              IN  [k \in 1..Len(got) |-> got[k].status] = sent]_qvars

\* C20: whether or not the write to one subscriber throws, a broadcast
\* leaves the same job table, queue, job objects, workers and snapshot and
\* delivers the event to every other subscriber; the failing subscriber
\* gets nothing.
C20_DeliveryFailureIsolated ==
  \A j \in activeDownloads, type \in {"update", "status-change"}, c \in SeqToSet(clients) :
    LET fine   == Broadcast([EngineState EXCEPT !.conns[c].throws = FALSE], type, j)
        broken == Broadcast([EngineState EXCEPT !.conns[c].throws = TRUE], type, j)
    IN  /\ broken.active = fine.active /\ broken.active = activeDownloads
        /\ broken.dl = fine.dl /\ broken.dl = download
        /\ broken.queue = fine.queue /\ broken.queue = downloadQueue
        /\ broken.procs = fine.procs
        /\ broken.file = fine.file
        /\ broken.pub = fine.pub
        /\ broken.conns[c].received = conns[c].received
        /\ \A d \in Conns \ {c} :
             /\ broken.conns[d].received = fine.conns[d].received
             /\ (d \in SeqToSet(clients) /\ ~conns[d].throws) =>
                  broken.conns[d].received = Append(conns[d].received, EventOf(EngineState, j))

\* C20 witness: the subscriber registered first throws on write, and the
\* one registered after it has received a broadcast event that the first
\* one missed
C20_Witness ==
  \E c, d \in Conns :
    /\ clients = <<c, d>>
    /\ conns[c].throws /\ ~conns[d].throws
    /\ LET rd == conns[d].received
       IN  /\ Len(rd) >= 2
           /\ rd[Len(rd)].id = rd[Len(rd) - 1].id
           /\ \A k \in 1..Len(conns[c].received) : conns[c].received[k] # rd[Len(rd)]

\* C21 (as claimed): a subscriber to which a write failed during a
\* broadcast is no longer in the subscriber set when that broadcast is over.
C21_FailedSubscriberPruned ==
  [][\A c \in Conns :
       (/\ published' # published
        /\ \E k \in 1..Len(clients) : clients[k] = c
        /\ conns[c].throws)
       => \A k \in 1..Len(clients') : clients'[k] # c]_qvars

\* the job table as saveState() writes it
Snapshot(active, dl) == [k \in active |-> dl[k].info]

\* C22 (as claimed): every change of a job's status to retrying, error or
\* cancelled, and the end of the finalization of a completed job, leaves
\* the snapshot file equal to the job table as it is then (or as it was
\* when the event was published, the job still in it); and the handling of
\* a progress chunk does not write the snapshot file.
C22_SnapshotOnTransitionsOnly ==
  [][/\ \A j \in Ids :
          (/\ ~(\E g \in BOOLEAN : Restart(g))
           /\ \/ /\ download'[j].info.status # Status(j)
                 /\ download'[j].info.status \in {"retrying", "error", "cancelled"}
              \/ \E i \in 1..(RETRY_ATTEMPTS + 1) : procs'[j] # procs[j] /\ FinalizeDone(j, i))
          => \/ stateFile' = Snapshot(activeDownloads', download')
             \/ stateFile' = Snapshot(activeDownloads' \cup {j}, download')
     /\ \A j \in {k \in Ids : faults' # faults /\ published'[k] # published[k]},
          i \in 1..(RETRY_ATTEMPTS + 1), p \in ProgressSamples :
          Data(j, i, p) => stateFile' = stateFile]_qvars

\* C23 (as claimed): once a job has reached completed, error or cancelled
\* and left the job table, the snapshot file does not contain it, and a
\* restart does not bring it back into the table.
C23_TerminalJobLeavesSnapshot ==
  [][\A j \in Ids :
       /\ (j \notin activeDownloads'
             /\ download'[j].info.status \in {"completed", "error", "cancelled"})
            => j \notin DOMAIN stateFile'
       /\ ((\E g \in BOOLEAN : Restart(g))
             /\ j \notin activeDownloads
             /\ Status(j) \in {"completed", "error", "cancelled"})
            => j \notin activeDownloads']_qvars

\* the history records of job j
RecordsOf(h, j) == {k \in 1..Len(h) : h[k].id = j}

\* C24 (as claimed): the history has exactly one record for a job whose
\* worker exited 0 and whose finalization is over, at most one for any job
\* and none for a job none of whose workers exited 0; every record has
\* status completed; and a record, once added, is never changed or removed
\* by a later job event.
C24_HistoryOfCompletedOnly ==
  [][/\ \A j \in Ids :
          /\ Cardinality(RecordsOf(historyList', j)) <= 1
          /\ (\E i \in 1..Len(procs'[j]) : procs'[j][i] \in {"fin2", "done0"})
               => Cardinality(RecordsOf(historyList', j)) = 1
          /\ (\A i \in 1..Len(procs'[j]) : procs'[j][i] \notin {"fin2", "done0", "orphan"})
               => RecordsOf(historyList', j) = {}
     /\ \A k \in 1..Len(historyList') : historyList'[k].status = "completed"
     /\ Len(historyList') >= Len(historyList)
     /\ \A k \in 1..Len(historyList) : historyList'[k] = historyList[k]]_qvars

\* C25: the backend of a job is aria2c when its url is a magnet link,
\* whatever else it matches; otherwise yt-dlp when the url is of a video
\* platform or the forceVideo hint is set, manifest extension or not;
\* otherwise ffmpeg when the url has a manifest extension; otherwise aria2c.
\* A job that was started on yt-dlp or ffmpeg has a worker.
C25_BackendPriority ==
  \A j \in Ids :
    ~download[j].config.absent =>
      LET c == download[j].config
          b == Backend(c)
      IN  /\ b \in {"aria2c", "yt-dlp", "ffmpeg"}
          /\ c.magnet => b = "aria2c"
          /\ (~c.magnet /\ (c.platform \/ c.forceVideo)) => b = "yt-dlp"
          /\ (~c.magnet /\ ~c.platform /\ ~c.forceVideo /\ c.manifest) => b = "ffmpeg"
          /\ (~c.magnet /\ ~c.platform /\ ~c.forceVideo /\ ~c.manifest) => b = "aria2c"
          /\ (b # "aria2c" /\ j \in Started) => Spawns(j) >= 1

\* C25 witness: a job whose url is of a video platform and has a manifest
\* extension was started, on yt-dlp, and its worker reported progress
C25_Witness ==
  \E j \in activeDownloads :
    /\ download[j].config.platform /\ download[j].config.manifest
    /\ ~download[j].config.magnet /\ ~download[j].config.absent
    /\ Backend(download[j].config) = "yt-dlp"
    /\ LiveWorkers(j) # {}
    /\ download[j].info.progress = 50

\* C26 (as claimed): a job started on aria2c is invoked with one connection
\* when the attempt is a retry, the url is of a video platform or the
\* request asked for single-segment mode, and with more than one otherwise.
C26_SingleConnectionWhenAsked ==
  \A j \in activeDownloads :
    (~download[j].config.absent /\ j \in Started /\ Backend(download[j].config) = "aria2c")
      => \A singleSegment \in BOOLEAN, requested \in {0, 1, 16} :
           LET inv == AriaConns(download[j].config.magnet, requested)
           IN  /\ ~inv.threw
               /\ (download[j].retryCount > 0 \/ download[j].config.platform \/ singleSegment)
                     <=> inv.conns = 1

\* queuePosition of the response of POST /download
QueuePositionOf(queue) == Len(queue)

\* C27 (as claimed): an accepted submission adds exactly one job, under a
\* fresh id, created in status queued and appended at the tail of the
\* queue; if the job is still waiting when the response is sent, the
\* response's queuePosition is its 1-based position among the jobs waiting
\* in the queue.
C27_SubmissionQueuePosition ==
  [][nextId' = nextId + 1 =>
       LET id == nextId
           q  == downloadQueue'
           IsWaiting(k) == q[k] \in activeDownloads' /\ download'[q[k]].info.status = "queued"
       IN  /\ id \notin activeDownloads /\ activeDownloads' = activeDownloads \cup {id}
           /\ published[id] = <<>> /\ published'[id][1] = "queued"
           /\ \E n \in 0..(Len(downloadQueue) + 1) :
                q = SubSeq(Append(downloadQueue, id), n + 1, Len(downloadQueue) + 1)
           /\ download'[id].info.status = "queued" =>
                /\ q # <<>> /\ q[Len(q)] = id
                /\ QueuePositionOf(q) = Cardinality({k \in 1..Len(q) : IsWaiting(k)})]_qvars

\* C28 (as claimed): in the admission-by-rejection revision, where a
\* submission is accepted only while fewer than MAX_CONCURRENT_DOWNLOADS
\* jobs are tracked, the number of live workers never exceeds
\* MAX_CONCURRENT_DOWNLOADS.
C28_LiveWorkersBounded ==
  Cardinality({w \in Ids \X (1..(RETRY_ATTEMPTS + 1)) :
                 w[2] <= Len(procs[w[1]]) /\ procs[w[1]][w[2]] \in LiveStates})
    <= run.maxConcurrent

\* C29 (as claimed): when a handler has run a promotion pass (a submission,
\* the end of a completed job's finalization, a worker's 'error' event),
\* the queue is empty or the number of tracked jobs in status downloading
\* or retrying equals MAX_CONCURRENT_DOWNLOADS; and an id that the pass took
\* from the queue while it referred to no tracked job got no worker, no
\* status and no place in the table.
C29_PromotionPassPostcondition ==
  [][(\/ nextId' # nextId
      \/ \E j \in {k \in Ids : procs'[k] # procs[k]}, i \in 1..(RETRY_ATTEMPTS + 1) :
           FinalizeDone(j, i) \/ LaunchError(j, i))
     => /\ \/ downloadQueue' = <<>>
           \/ Cardinality({k \in activeDownloads' :
                             download'[k].info.status \in {"downloading", "retrying"}})
                = run.maxConcurrent
        /\ \A k \in Queued \ activeDownloads :
             k \notin SeqToSet(downloadQueue')
               => download'[k] = download[k] /\ procs'[k] = procs[k]
                    /\ k \notin activeDownloads']_qvars

\* C30: a retried failure counts one more retry, sets status retrying,
\* publishes it and arms the backoff timer; a tracked job in status
\* retrying has no live worker, is not in the queue, and holds its slot (a
\* submission made when every slot is held leaves the new job queued); when
\* the timer fires for a tracked job, that job goes to downloading with
\* exactly one live worker, a new one, and the queue is not touched.
C30_RetryKeepsSlot ==
  [][\A j \in Ids :
       /\ (download'[j].info.status = "retrying" /\ Status(j) # "retrying") =>
            /\ download'[j].retryCount = download[j].retryCount + 1
            /\ published'[j] = Append(published[j], "retrying")
            /\ j \in retryTimers' /\ j \notin retryTimers
            /\ procs'[j] # procs[j] /\ Len(procs'[j]) = Len(procs[j])
       /\ (j \in activeDownloads /\ Status(j) = "retrying") =>
            /\ LiveWorkers(j) = {}
            /\ j \notin Queued
            /\ j \in retryTimers
            /\ (nextId' # nextId /\ Cardinality(Running) = run.maxConcurrent) =>
                 /\ download'[nextId].info.status = "queued"
                 /\ procs' = procs
       /\ (j \in activeDownloads /\ procs'[j] # procs[j] /\ RetryTimer(j)) =>
            /\ Status(j) = "retrying"
            /\ download'[j].info.status = "downloading"
            /\ procs'[j] = Append(procs[j], "running")
            /\ download'[j].process = Len(procs'[j])
            /\ {i \in 1..Len(procs'[j]) : procs'[j][i] \in LiveStates} = {Len(procs'[j])}
            /\ downloadQueue' = downloadQueue
            /\ j \notin Queued
            /\ download'[j].retryCount = download[j].retryCount]_qvars

\* C30 witness: the first job failed, waited for its retry and was
\* restarted on a second worker, while the second job kept waiting in the
\* queue
C30_Witness ==
  \E j \in activeDownloads :
    /\ procs[j] = <<"doneT", "running">>
    /\ download[j].retryCount = 1
    /\ published[j] = <<"queued", "downloading", "retrying", "downloading">>
    /\ startOrder = <<j>>
    /\ Waiting # {}
    /\ j \notin Queued

\* C31: a chunk changes no field whose pattern it does not match: a yt-dlp
\* chunk with a percentage leaves fullSize, speed and eta as they are
\* unless it carries them, and never touches currentSize; an aria2c chunk
\* matching only "(N%)" leaves currentSize, fullSize, speed and eta; a
\* chunk matching no pattern changes no field and publishes no event.
C31_PartialMatchKeepsFields ==
  [][parsed' # parsed /\ parsed.backend # "none" =>
       LET c == parsed'.last
           Same(f) == parsed'[f] = parsed[f]
       IN  /\ c.backend = "yt-dlp" =>
                /\ c.size = "" => Same("fullSize")
                /\ c.speed = "" => Same("speed")
                /\ c.eta = "" => Same("eta")
                /\ Same("currentSize")
                /\ c.pct = -1 => \A f \in {"progress", "fullSize", "speed", "eta"} : Same(f)
                /\ parsed'.event <=> c.pct # -1
           /\ c.backend = "aria2c" =>
                /\ c.kind = "simple" =>
                     \A f \in {"currentSize", "fullSize", "speed", "eta"} : Same(f)
                /\ c.kind = "none" =>
                     \A f \in {"progress", "currentSize", "fullSize", "speed", "eta"} : Same(f)
                /\ parsed'.event <=> c.kind # "none"
           /\ c.backend = "ffmpeg" =>
                /\ Same("currentSize") /\ Same("fullSize") /\ Same("speed")
                /\ c.secs = -1 => Same("progress") /\ Same("eta")
                /\ parsed'.event <=> c.secs # -1]_qvars

\* C31 witness: after the total size and the speed were captured, a yt-dlp
\* chunk with nothing but a percentage was handled and published
C31_Witness ==
  /\ parsed.backend = "yt-dlp"
  /\ parsed.last = [backend |-> "yt-dlp", pct |-> 75, size |-> "", speed |-> "", eta |-> ""]
  /\ parsed.fullSize = "5MiB" /\ parsed.speed = "1MiB/s" /\ parsed.eta = "--"
  /\ parsed.progress = 7
  /\ parsed.event

\* C32 (as claimed): a job's progress is always an integer between 0 and
\* 100, whatever its worker writes.
C32_ProgressInRange ==
  parsed.backend # "none" => parsed.progress \in 0..100

\* C33 (as claimed): an output chunk of a worker whose job is not in status
\* downloading or retrying (it was cancelled, or left the job table)
\* changes nothing in the job's record, publishes no event and writes no
\* snapshot.
C33_NoProgressAfterTerminal ==
  [][\A j \in {k \in Ids : faults' # faults /\ Status(k) \notin {"downloading", "retrying"}},
       i \in 1..(RETRY_ATTEMPTS + 1), p \in ProgressSamples :
       Data(j, i, p) =>
         /\ download'[j] = download[j]
         /\ published'[j] = published[j]
         /\ stateFile' = stateFile]_qvars

\* C34 (as claimed): when the size measurement or the file move of a
\* completion failed, the finalization still ends with the job completed at
\* progress 100, a history record with status completed, completed
\* published, and the promotion pass run; after a failed move the recorded
\* filename is the final filename in the downloads directory, and after a
\* failed measurement the size stays unknown.
C34_FilerFailureNonFatal ==
  [][\A j \in {k \in Ids : procs'[k] # procs[k]}, i \in 1..(RETRY_ATTEMPTS + 1) :
       (/\ FinalizeDone(j, i)
        /\ ~ArtifactOf(j).tried.stat \/ ArtifactOf(j).tried.move = "failed")
       => /\ download'[j].info.status = "completed"
          /\ download'[j].info.progress = 100
          /\ \E h \in 1..Len(historyList) :
               /\ historyList[h].id = j /\ historyList[h].status = "completed"
               /\ ArtifactOf(j).tried.move = "failed" => historyList[h].filename = "final"
          /\ published'[j] = Append(published[j], "completed")
          /\ j \notin activeDownloads'
          /\ \/ downloadQueue' = <<>>
             \/ Cardinality({k \in activeDownloads' :
                               download'[k].info.status \in {"downloading", "retrying"}})
                  = run.maxConcurrent
          /\ ArtifactOf(j).tried.move = "failed" => ArtifactOf(j).filename = "final"
          /\ ~ArtifactOf(j).tried.stat => ArtifactOf(j).fullSize = "???"]_qvars

\* C35 (as claimed): when a job goes to error, no other job's record or
\* worker changes, except that a queued job may be promoted; the queue
\* keeps its order; and the jobs waiting behind the failed one are
\* promoted: no job is left waiting beside the slot that was freed.
C35_FailureIsolated ==
  [][\A j \in Ids :
       (download'[j].info.status = "error" /\ Status(j) # "error") =>
         /\ \A k \in Ids \ {j} :
              \/ download'[k] = download[k] /\ procs'[k] = procs[k]
              \/ Status(k) = "queued" /\ download'[k].info.status = "downloading"
         /\ \E n \in 0..Len(downloadQueue) :
              downloadQueue' = SubSeq(downloadQueue, n + 1, Len(downloadQueue))
         /\ \/ \A q \in 1..Len(downloadQueue') :
                 ~(downloadQueue'[q] \in activeDownloads'
                     /\ download'[downloadQueue'[q]].info.status = "queued")
            \/ Cardinality({k \in activeDownloads' :
                              download'[k].info.status \in {"downloading", "retrying"}})
                 >= run.maxConcurrent]_qvars

\* C36 (as claimed): in every reachable state the pending queue holds
\* exactly the ids of the tracked jobs whose status is queued, each of
\* them once.
C36_QueueHoldsExactlyQueuedJobs ==
  /\ \A p, q \in 1..Len(downloadQueue) :
       p # q => downloadQueue[p] # downloadQueue[q]
  /\ {downloadQueue[q] : q \in 1..Len(downloadQueue)}
       = {j \in activeDownloads : Status(j) = "queued"}

\* C37 (as claimed): every tracked job that is in status downloading or
\* retrying eventually reaches completed, error or cancelled, given that
\* every worker eventually exits and every backoff timer fires.
C37_PromotedJobTerminates ==
  \A j \in Ids :
    (j \in activeDownloads /\ Status(j) \in {"downloading", "retrying"})
      ~> (Status(j) \in {"completed", "error", "cancelled"})

\* C38 (as claimed): the disconnect of one subscriber removes exactly that
\* subscriber from the subscriber set; every other subscriber stays
\* registered, in the same order.
C38_DisconnectRemovesOnlyItself ==
  [][\A c \in Conns :
       Disconnect(c) =>
         LET NotC(x) == x # c
         IN  clients' = SelectSeq(clients, NotC)]_qvars

\* position of job j in the order of the starts (0: not started)
StartRank(j) ==
  IF \E k \in 1..Len(startOrder) : startOrder[k] = j
  THEN CHOOSE k \in 1..Len(startOrder) : startOrder[k] = j
  ELSE 0

\* C39 (as claimed): of two accepted submissions, the one received first
\* has its job created and queued first, and is started no later than the
\* other, whatever the order in which their probes answer.
C39_ArrivalOrderKept ==
  \A a, b \in Submissions :
    (/\ ProbeOf(a).state = "accepted" /\ ProbeOf(b).state = "accepted"
     /\ ProbeOf(a).arrival < ProbeOf(b).arrival)
    => /\ ProbeOf(a).id < ProbeOf(b).id
       /\ StartRank(ProbeOf(b).id) > 0 =>
            /\ StartRank(ProbeOf(a).id) > 0
            /\ StartRank(ProbeOf(a).id) < StartRank(ProbeOf(b).id)

====
